---- MODULE Spec2Model ----
(***************************************************************************)
(* rollup-plugin-asset-build-size-compare: the size-tracking engine of     *)
(* bundleSize(): generateBundle -> load -> outputSizes -> save ->          *)
(* writeToDisk, with the history file, the output directory and the        *)
(* plugin closure (pattern, initialSizes, isSingleChunk) as state.         *)
(*                                                                         *)
(* A size map (a JS object) is a sequence of [name, val] entries with      *)
(* unique names, in Object.keys order.  Null stands for null / undefined.  *)
(* Every await of the source that waits for I/O is a step boundary.        *)
(***************************************************************************)
EXTENDS Integers, Sequences, FiniteSets, TLC

\* ------------------------------------------------------------- bounds
\* generateBundle invocations of one plugin instance: under Spec, and under
\* SpecRace (a narrower environment, one more invocation)
MaxBuilds == 2
RaceBuilds == 3
\* invocations under SpecOverlap, where the host does not wait for a promise
OverlapBuilds == 2

Builds == 1..(IF MaxBuilds > RaceBuilds THEN MaxBuilds ELSE RaceBuilds)

\* ---------------------------------------------------- program constants
ConfiguredPattern == "**/*.{mjs,js,jsx,css,html}"
CompressionLevel == 6

Null == -1

\* ------------------------------------------------------------ __utils
Keys(m) == [i \in DOMAIN m |-> m[i].name]

HasKey(m, n) == \E i \in DOMAIN m : m[i].name = n

\* m[n]: undefined (Null) when n is not a key
Get(m, n) ==
  IF HasKey(m, n) THEN m[CHOOSE i \in DOMAIN m : m[i].name = n].val ELSE Null

\* map[name] = value: an existing key keeps its place, a new key is appended
MapSet(m, n, v) ==
  IF HasKey(m, n)
  THEN [i \in DOMAIN m |-> IF m[i].name = n THEN [name |-> n, val |-> v] ELSE m[i]]
  ELSE Append(m, [name |-> n, val |-> v])

RECURSIVE ToMapFrom(_, _, _, _)
ToMapFrom(names, values, i, map) ==
  IF i > Len(names) THEN map
  ELSE ToMapFrom(names, values, i + 1,
         MapSet(map, names[i], IF i <= Len(values) THEN values[i] ELSE Null))

toMap(names, values) == ToMapFrom(names, values, 1, <<>>)

\* arr.indexOf(item)
IndexOf(arr, item) == CHOOSE i \in DOMAIN arr : arr[i] = item /\ \A j \in 1..(i - 1) : arr[j] # item

\* a faulty dedupe: the filter keeps every occurrence
dedupeKeepsAll(arr) == arr

RECURSIVE FilterDedupe(_, _)
FilterDedupe(arr, i) ==
  IF i > Len(arr) THEN <<>>
  ELSE (IF IndexOf(arr, arr[i]) = i THEN <<arr[i]>> ELSE <<>>) \o FilterDedupe(arr, i + 1)

dedupe(arr) == FilterDedupe(arr, 1)

RECURSIVE ToFileMapFrom(_, _, _)
ToFileMapFrom(files, i, result) ==
  IF i > Len(files) THEN result
  ELSE ToFileMapFrom(files, i + 1,
         IF files[i].size # 0 THEN MapSet(result, files[i].filename, files[i].size) ELSE result)

\* a faulty toFileMap: zero-size files are kept
toFileMapKeepsZero(files) ==
  [i \in DOMAIN files |-> [name |-> files[i].filename, val |-> files[i].size]]

toFileMap(files) == ToFileMapFrom(files, 1, <<>>)

\* value || 0
OrZero(v) == IF v = Null THEN 0 ELSE v

\* ------------------------------------------------------------ inputs
\* One output file of a bundle: a chunk carries code (len bytes), an asset
\* carries a source and no code (len = Null).
Out(n, t, l) == [fileName |-> n, type |-> t, len |-> l]

BundleChoices ==
  { <<Out("a.js", "chunk", 1)>>,
    <<Out("a.js", "chunk", 0), Out("b.js", "chunk", 2)>>,
    <<Out("a.js", "chunk", 2), Out("x.cjs", "chunk", 1)>>,
    <<Out("a.js", "chunk", 1), Out("b.js", "chunk", 1), Out("s.css", "asset", Null)>> }

RaceBundles ==
  { <<Out("a.js", "chunk", 0), Out("b.js", "chunk", 2)>>,
    <<Out("a.js", "chunk", 2), Out("x.cjs", "chunk", 1)>> }

\* one chunk c.mjs; one chunk b.js; two chunks
OverlapBundles ==
  { <<Out("c.mjs", "chunk", 1)>>,
    <<Out("b.js", "chunk", 2)>>,
    <<Out("a.js", "chunk", 2), Out("b.js", "chunk", 1)>> }

DirFile(n, l) == [name |-> n, len |-> l]

DirChoices ==
  { <<>>,
    <<DirFile("a.js", 1)>>,
    <<DirFile("a.js", 1), DirFile("c.mjs", 2), DirFile("x.cjs", 1)>> }

\* ------------------------------------------------------------- state
VARIABLES
  writeFile,      \* options.writeFile
  compression,    \* options.compression
  exclude,        \* options.exclude ("" = none)
  brotliAvail,    \* zlib.brotliCompress exists
  fsWritable,     \* the filesystem accepts writes of the history file
  dir,            \* the output directory, in glob order
  hist,           \* the history file
  now,            \* Date.now()
  pattern,        \* closure: let pattern
  initialSizes,   \* closure: let initialSizes
  isSingleChunk,  \* closure: let isSingleChunk
  B               \* per generateBundle invocation: position and locals

vars == <<writeFile, compression, exclude, brotliAvail, fsWritable, dir, hist, now,
          pattern, initialSizes, isSingleChunk, B>>

env == <<writeFile, compression, exclude, brotliAvail, fsWritable, dir>>

\* ------------------------------------------------- persisted format
Delta(n, p, s) == [filename |-> n, previous |-> p, size |-> s, diff |-> s - p]

\* hasFiles: the element is an object with a files list (a Snapshot)
Snapshot(t, c, l, fs) ==
  [timestamp |-> t, compressionType |-> c, compressionLevel |-> l, files |-> fs,
   hasFiles |-> TRUE]

\* a JSON value such as {} in the place of a Snapshot
Junk ==
  [timestamp |-> 0, compressionType |-> "", compressionLevel |-> 0, files |-> <<>>,
   hasFiles |-> FALSE]

Absent == [kind |-> "absent", data |-> <<>>]
\* not JSON (an empty or truncated file)
Corrupt == [kind |-> "corrupt", data |-> <<>>]
\* JSON that is not an array
NotArray == [kind |-> "notarray", data |-> <<>>]
Array(d) == [kind |-> "array", data |-> d]

\* ------------------------------------------------ getCompressedSize
\* zlib on an incompressible input of at most a few bytes: gzip adds its
\* 18 bytes of header and trailer and a 2-byte deflate block, brotli 4 bytes.
CompressedLength(len) ==
  CASE compression = "gzip" -> len + 20
    [] compression = "brotli" -> IF len = 0 THEN 1 ELSE len + 4
    [] OTHER -> len

BrotliMissing == compression = "brotli" /\ ~brotliAvail

\* ------------------------------------------------------ filterFiles
\* minimatch on the names of the model
Matches(pat, name) ==
  IF pat = ConfiguredPattern THEN name \in {"a.js", "b.js", "c.mjs", "s.css"} ELSE name = pat

IsExcluded(name) == exclude # "" /\ Matches(exclude, name)

filterFiles(files, pat) ==
  LET keep(f) == Matches(pat, f) /\ ~IsExcluded(f) IN SelectSeq(files, keep)

\* glob(pattern, { cwd, ignore: exclude })
glob(pat) ==
  LET names == [i \in DOMAIN dir |-> dir[i].name]
      keep(f) == Matches(pat, f) /\ ~IsExcluded(f)
  IN SelectSeq(names, keep)

\* ----------------------------------------------------- readFromDisk
RECURSIVE InsertDesc(_, _)
\* where a stable sort by (a, b) => b.timestamp - a.timestamp puts e, coming last
InsertDesc(sorted, e) ==
  IF sorted = <<>> THEN <<e>>
  ELSE IF Head(sorted).timestamp >= e.timestamp
       THEN <<Head(sorted)>> \o InsertDesc(Tail(sorted), e)
       ELSE <<e>> \o sorted

RECURSIVE SortDesc(_)
SortDesc(d) ==
  IF d = <<>> THEN <<>> ELSE InsertDesc(SortDesc(SubSeq(d, 1, Len(d) - 1)), d[Len(d)])

\* a faulty readFromDisk: the stored order is trusted, no sort
readFromDiskUnsorted(h) ==
  IF ~writeFile THEN <<>>
  ELSE IF h.kind = "array" THEN h.data ELSE <<>>

readFromDisk(h) ==
  IF ~writeFile THEN <<>>
  ELSE IF h.kind = "array" THEN SortDesc(h.data) ELSE <<>>

\* ------------------------------------------------------------- save
\* outputSizes' loop: one item per unique filename
Items(sizesBefore, sizesAfter) ==
  LET files == dedupe(Keys(sizesBefore) \o Keys(sizesAfter))
  IN [i \in DOMAIN files |->
        [name |-> files[i],
         size |-> OrZero(Get(sizesAfter, files[i])),
         sizeBefore |-> OrZero(Get(sizesBefore, files[i]))]]

\* a faulty save: diff taken the other way round
StatsDiffReversed(items, t) ==
  Snapshot(t, compression, CompressionLevel,
           [i \in DOMAIN items |->
              [filename |-> items[i].name,
               previous |-> items[i].sizeBefore,
               size |-> items[i].size,
               diff |-> items[i].sizeBefore - items[i].size]])

Stats(items, t) ==
  Snapshot(t, compression, CompressionLevel,
           [i \in DOMAIN items |->
              [filename |-> items[i].name,
               previous |-> items[i].sizeBefore,
               size |-> items[i].size,
               diff |-> items[i].size - items[i].sizeBefore]])

\* a faulty condition: any file at all makes the build eligible
SomeFile(stats) == stats.files # <<>>

\* writeToDisk's condition: some file changed
SomeDiff(stats) == \E i \in DOMAIN stats.files : stats.files[i].diff # 0

\* a faulty gate: the write does not depend on options.writeFile
WriteAlways == TRUE

WriteEnabled == writeFile

\* -------------------------------------------------------------- Init
NoStats == Snapshot(0, "", 0, <<>>)

IdleBuild ==
  [pc |-> "idle",           \* idle, read, glob, scan, measure, pread, ensure, write, done
   hook |-> "none",         \* generateBundle's promise: none, pending, resolved, rejected
   task |-> "none",         \* outputSizes' promise: none, running, done, failed
   err |-> "none",          \* the error thrown: none, TypeError, Brotli, Write
   bundle |-> <<>>,
   histAtStart |-> Absent,  \* the history file when the hook was invoked
   histRead |-> Absent,     \* the history file as load's readFromDisk found it
   loadKind |-> "none",     \* where load's result came from: history, scan
   files |-> <<>>,          \* getSizes: glob's result
   filtered |-> <<>>,       \* getSizes: filterFiles(files)
   unread |-> {},           \* getSizes: the files whose read failed
   sizesBefore |-> <<>>,
   assetNames |-> <<>>,
   sizesAfter |-> <<>>,
   hasStats |-> FALSE,
   stats |-> NoStats,
   data |-> <<>>,           \* writeToDisk: the list to write
   wrote |-> FALSE]

\* histories a run of the plugin leaves, and files edited or damaged since
HistChoices ==
  LET s1 == Snapshot(1, compression, CompressionLevel,
                     <<Delta("a.js", 0, CompressedLength(2))>>)
      s2 == Snapshot(2, compression, CompressionLevel,
                     <<Delta("a.js", CompressedLength(2), CompressedLength(1)),
                       Delta("b.js", CompressedLength(1), 0)>>)
  IN { Absent, Corrupt, NotArray, Array(<<>>), Array(<<Junk>>),
       Array(<<s1>>), Array(<<s2, s1>>), Array(<<s1, s2>>) }

Init ==
  /\ writeFile \in BOOLEAN
  /\ compression \in {"none", "gzip", "brotli"}
  /\ brotliAvail \in (IF compression = "brotli" THEN BOOLEAN ELSE {TRUE})
  /\ exclude \in {"", "b.js"}
  /\ fsWritable \in (IF writeFile THEN BOOLEAN ELSE {TRUE})
  /\ dir \in DirChoices
  /\ hist \in HistChoices
  /\ now = 3
  /\ pattern = ConfiguredPattern
  /\ initialSizes = <<>>
  /\ isSingleChunk = FALSE
  /\ B = [b \in Builds |-> IdleBuild]

\* ---------------------------------------------------------- actions
\* the host calls the hook of one instance again once the previous call's
\* promise has settled
HostMayStart(b) ==
  /\ B[b].pc = "idle"
  /\ IF b = 1 THEN TRUE ELSE B[b - 1].hook \in {"resolved", "rejected"}

Reject(b, e) ==
  [B EXCEPT ![b].pc = "done", ![b].hook = "rejected", ![b].err = e]

\* outputSizes rejects: .catch(console.error)
TaskFail(b, e) ==
  [B EXCEPT ![b].pc = "done", ![b].task = "failed", ![b].err = e]

\* generateBundle from `initialSizes = await load(_path)` on: the assignment,
\* the call of outputSizes up to its first await that waits, and the return
CallOutputSizes(b, kind, sizes, R) ==
  /\ initialSizes' = sizes
  /\ B' = [R EXCEPT ![b].pc = "measure",
                    ![b].hook = "resolved",
                    ![b].task = "running",
                    ![b].loadKind = kind,
                    ![b].sizesBefore = sizes,
                    ![b].assetNames =
                       filterFiles([i \in DOMAIN B[b].bundle |-> B[b].bundle[i].fileName],
                                   pattern)]

\* generateBundle up to readFromDisk's fs.readJSON (writeFile) or getSizes' glob
\* generateBundle up to `await load(_path)`
Begin(b, bun) ==
  /\ B[b].pc = "idle"
  /\ LET chunks == SelectSeq(bun, LAMBDA o : o.type = "chunk")
         single == Len(chunks) = 1
         pat == IF single THEN chunks[1].fileName ELSE pattern
     IN /\ isSingleChunk' = single
        /\ pattern' = pat
        /\ B' = [B EXCEPT ![b].hook = "pending",
                          ![b].bundle = bun,
                          ![b].histAtStart = hist,
                          ![b].pc = IF writeFile THEN "read" ELSE "glob",
                          ![b].files = IF writeFile THEN <<>> ELSE glob(pat)]
  /\ UNCHANGED <<env, hist, now, initialSizes>>

Start(b, bun) == HostMayStart(b) /\ Begin(b, bun)

\* load: fs.readJSON settles
LoadRead(b) ==
  /\ B[b].pc = "read"
  /\ LET data == readFromDisk(hist)
         R == [B EXCEPT ![b].histRead = hist]
     IN IF Len(data) > 0
        THEN IF data[1].hasFiles
             THEN CallOutputSizes(b, "history", toFileMap(data[1].files), R)
             ELSE /\ B' = [Reject(b, "TypeError") EXCEPT ![b].histRead = hist]
                  /\ UNCHANGED initialSizes
        ELSE /\ B' = [R EXCEPT ![b].pc = "glob", ![b].files = glob(pattern)]
             /\ UNCHANGED initialSizes
  /\ UNCHANGED <<env, hist, now, pattern, isSingleChunk>>

\* getSizes: glob settles; filterFiles(files) and the reads start
GlobDone(b) ==
  /\ B[b].pc = "glob"
  /\ B' = [B EXCEPT ![b].pc = "scan", ![b].filtered = filterFiles(B[b].files, pattern)]
  /\ UNCHANGED <<env, hist, now, pattern, initialSizes, isSingleChunk>>

DirLen(name) == dir[CHOOSE i \in DOMAIN dir : dir[i].name = name].len

\* getSizes: every read and measurement has settled; the reads of `failed` failed
ScanDone(b, failed) ==
  /\ B[b].pc = "scan"
  /\ LET filtered == B[b].filtered
         sizes == [i \in DOMAIN filtered |->
                     IF i \in failed THEN Null ELSE CompressedLength(DirLen(filtered[i]))]
     IN IF BrotliMissing /\ (DOMAIN filtered) \ failed # {}
        THEN /\ B' = Reject(b, "Brotli")
             /\ UNCHANGED initialSizes
        ELSE CallOutputSizes(b, "scan", toMap(B[b].files, sizes),
                             [B EXCEPT ![b].unread = {filtered[i] : i \in failed}])
  /\ UNCHANGED <<env, hist, now, pattern, isSingleChunk>>

BundleLen(bun, name) == bun[CHOOSE i \in DOMAIN bun : bun[i].fileName = name].len

\* outputSizes: the measurements have settled; the loop, save up to
\* writeToDisk's readFromDisk, and (nothing to write) the report
MeasureDone(b) ==
  /\ B[b].pc = "measure"
  /\ LET names == B[b].assetNames
         bun == B[b].bundle
         sizes == [i \in DOMAIN names |-> CompressedLength(BundleLen(bun, names[i]))]
         sizesAfter == toMap(names, sizes)
         stats == Stats(Items(B[b].sizesBefore, sizesAfter), now)
         R == [B EXCEPT ![b].sizesAfter = sizesAfter, ![b].hasStats = TRUE,
                        ![b].stats = stats]
     IN IF BrotliMissing /\ names # <<>>
        THEN B' = TaskFail(b, "Brotli") /\ now' = now
        ELSE IF \E i \in DOMAIN names : BundleLen(bun, names[i]) = Null
        THEN B' = TaskFail(b, "TypeError") /\ now' = now
        ELSE /\ now' = now + 1
             /\ IF SomeDiff(stats)
                THEN B' = [R EXCEPT ![b].pc = "pread"]
                ELSE B' = [R EXCEPT ![b].pc = "done", ![b].task = "done"]
  /\ UNCHANGED <<env, hist, pattern, initialSizes, isSingleChunk>>

\* writeToDisk: readFromDisk settles; data.unshift(stats)
PersistRead(b) ==
  /\ B[b].pc = "pread"
  /\ B' = [B EXCEPT ![b].pc = IF WriteEnabled THEN "ensure" ELSE "done",
                    ![b].task = IF WriteEnabled THEN "running" ELSE "done",
                    ![b].data = <<B[b].stats>> \o readFromDisk(hist)]
  /\ UNCHANGED <<env, hist, now, pattern, initialSizes, isSingleChunk>>

\* writeToDisk: fs.ensureFile settles (an absent file is created empty)
Ensure(b) ==
  /\ B[b].pc = "ensure"
  /\ IF hist.kind # "absent"
     THEN B' = [B EXCEPT ![b].pc = "write"] /\ hist' = hist
     ELSE IF fsWritable
     THEN B' = [B EXCEPT ![b].pc = "write"] /\ hist' = Corrupt
     ELSE B' = TaskFail(b, "Write") /\ hist' = hist
  /\ UNCHANGED <<env, now, pattern, initialSizes, isSingleChunk>>

\* writeToDisk: fs.writeJSON settles; outputSizes reports and returns
Write(b) ==
  /\ B[b].pc = "write"
  /\ IF fsWritable
     THEN /\ hist' = Array(B[b].data)
          /\ B' = [B EXCEPT ![b].pc = "done", ![b].task = "done", ![b].wrote = TRUE]
     ELSE B' = TaskFail(b, "Write") /\ hist' = hist
  /\ UNCHANGED <<env, now, pattern, initialSizes, isSingleChunk>>

Step(b, bundles) ==
  \/ \E bun \in bundles : Start(b, bun)
  \/ LoadRead(b)
  \/ GlobDone(b)
  \/ \E failed \in SUBSET (DOMAIN B[b].filtered) : ScanDone(b, failed)
  \/ MeasureDone(b)
  \/ PersistRead(b)
  \/ Ensure(b)
  \/ Write(b)

Next == \E b \in 1..MaxBuilds : Step(b, BundleChoices)

Spec == Init /\ [][Next]_vars

\* One configuration (gzip, writeFile, no exclude, a writable disk), more builds
InitRace ==
  /\ writeFile = TRUE
  /\ compression = "gzip"
  /\ brotliAvail = TRUE
  /\ exclude = ""
  /\ fsWritable = TRUE
  /\ dir = <<DirFile("a.js", 1)>>
  /\ hist \in {Absent, Array(<<Snapshot(1, "gzip", CompressionLevel,
                                        <<Delta("a.js", 0, 22)>>)>>)}
  /\ now = 3
  /\ pattern = ConfiguredPattern
  /\ initialSizes = <<>>
  /\ isSingleChunk = FALSE
  /\ B = [b \in Builds |-> IdleBuild]

NextRace == \E b \in 1..RaceBuilds : Step(b, RaceBundles)

SpecRace == InitRace /\ [][NextRace]_vars

\* A host that invokes the hook again while earlier invocations are pending
\* (several outputs of one build written at once)
HostMayOverlap(b) ==
  /\ B[b].pc = "idle"
  /\ IF b = 1 THEN TRUE ELSE B[b - 1].pc # "idle"

StartOverlapping(b, bun) == HostMayOverlap(b) /\ Begin(b, bun)

StepOverlap(b, bundles) ==
  \/ \E bun \in bundles : StartOverlapping(b, bun)
  \/ LoadRead(b)
  \/ GlobDone(b)
  \/ \E failed \in SUBSET (DOMAIN B[b].filtered) : ScanDone(b, failed)
  \/ MeasureDone(b)
  \/ PersistRead(b)
  \/ Ensure(b)
  \/ Write(b)

InitOverlap ==
  /\ writeFile \in BOOLEAN
  /\ compression = "gzip"
  /\ brotliAvail = TRUE
  /\ exclude = ""
  /\ fsWritable = TRUE
  /\ dir = <<DirFile("a.js", 1), DirFile("c.mjs", 2), DirFile("x.cjs", 1)>>
  /\ hist \in {Absent, Array(<<Snapshot(1, "gzip", CompressionLevel,
                                        <<Delta("a.js", 0, 22)>>)>>)}
  /\ now = 3
  /\ pattern = ConfiguredPattern
  /\ initialSizes = <<>>
  /\ isSingleChunk = FALSE
  /\ B = [b \in Builds |-> IdleBuild]

NextOverlap == \E b \in 1..OverlapBuilds : StepOverlap(b, OverlapBundles)

SpecOverlap == InitOverlap /\ [][NextOverlap]_vars

\* ============================================================ claims
\* the number the size map m holds for n, 0 when it holds none
SizeIn(m, n) ==
  IF \E i \in DOMAIN m : m[i].name = n /\ m[i].val # Null
  THEN (m[CHOOSE i \in DOMAIN m : m[i].name = n /\ m[i].val # Null]).val
  ELSE 0

ToSet(seq) == {seq[i] : i \in DOMAIN seq}

Filenames(stats) == [i \in DOMAIN stats.files |-> stats.files[i].filename]

\* C1: in the Snapshot a build makes, the FileDelta of every filename has
\* previous = before[name] (0 without such an entry), size = after[name]
\* (0 without such an entry) and diff = size - previous.
C1_DeltaOfEachFile ==
  \A b \in Builds :
    B[b].hasStats =>
      \A i \in DOMAIN B[b].stats.files :
        LET d == B[b].stats.files[i] IN
          /\ d.previous = SizeIn(B[b].sizesBefore, d.filename)
          /\ d.size = SizeIn(B[b].sizesAfter, d.filename)
          /\ d.diff = d.size - d.previous

\* a Snapshot with a file only the build has, and a file that changed size
C1_Witness ==
  \E b \in Builds :
    /\ B[b].hasStats
    /\ \E i, j \in DOMAIN B[b].stats.files :
         /\ ~HasKey(B[b].sizesBefore, B[b].stats.files[i].filename)
         /\ B[b].stats.files[i].size > 0
         /\ B[b].stats.files[j].previous > 0
         /\ B[b].stats.files[j].size > 0
         /\ B[b].stats.files[j].diff < 0

\* C2: the reconciliation lists every filename of keys(before) and keys(after)
\* exactly once: before's keys in before's order, then the keys only after
\* has, in after's order.
C2_UnionInOrder ==
  \A b \in Builds :
    B[b].hasStats =>
      LET kb == Keys(B[b].sizesBefore)
          ka == Keys(B[b].sizesAfter)
          names == Filenames(B[b].stats)
      IN /\ names = kb \o SelectSeq(ka, LAMBDA n : n \notin ToSet(kb))
         /\ Len(names) = Cardinality(ToSet(kb) \cup ToSet(ka))
         /\ \A i, j \in DOMAIN names : names[i] = names[j] => i = j

\* before and after share a filename and each has one of its own
C2_Witness ==
  \E b \in Builds :
    /\ B[b].hasStats
    /\ LET kb == ToSet(Keys(B[b].sizesBefore))
           ka == ToSet(Keys(B[b].sizesAfter))
       IN kb \cap ka # {} /\ kb \ ka # {} /\ ka \ kb # {}

AllDiffsZero(stats) == \A i \in DOMAIN stats.files : stats.files[i].diff = 0

\* C3: a build whose FileDeltas all have diff = 0 performs no write: the step
\* that makes its Snapshot ends the build and no step of the build changes the
\* history file.
C3_NoOpBuildWritesNothing ==
  [][\A b \in Builds :
       (B[b].pc # B'[b].pc /\ B'[b].hasStats /\ AllDiffsZero(B'[b].stats))
         => (hist' = hist /\ B'[b].pc = "done" /\ ~B'[b].wrote)]_vars

\* a finished build over files none of which changed, with writeFile enabled
C3_Witness ==
  \E b \in Builds :
    /\ writeFile
    /\ B[b].task = "done"
    /\ B[b].stats.files # <<>>
    /\ AllDiffsZero(B[b].stats)
    /\ \E i \in DOMAIN B[b].stats.files : B[b].stats.files[i].size > 0

\* the Snapshots a history file holds (none when absent or unreadable)
SnapshotsOf(h) == IF h.kind = "array" THEN h.data ELSE <<>>

Count(seq, x) == Cardinality({i \in DOMAIN seq : seq[i] = x})

\* every element of old is in new, as often
KeepsAll(old, new) == \A i \in DOMAIN old : Count(old, old[i]) <= Count(new, old[i])

\* C4: the write of a build with a non-zero diff (writeFile enabled) leaves the
\* history file holding the build's Snapshot at the head, followed by every
\* Snapshot the file held when the build began.
C4_PrependKeepsHistory ==
  [][\A b \in Builds :
       (B[b].pc = "write" /\ B'[b].wrote)
         => /\ hist'.kind = "array"
            /\ hist'.data # <<>>
            /\ Head(hist'.data) = B[b].stats
            /\ KeepsAll(SnapshotsOf(B[b].histAtStart), Tail(hist'.data))]_vars

\* C5: with writeFile disabled no step of any build creates or changes the
\* history file.
C5_DisabledNeverWrites == [][~writeFile => hist' = hist]_vars

\* writeFile disabled, and a build has finished with a non-zero diff
C5_Witness ==
  /\ ~writeFile
  /\ \E b \in Builds : B[b].task = "done" /\ B[b].hasStats /\ SomeDiff(B[b].stats)

\* the file parses to a non-empty list of Snapshots
IsSnapshotList(h) ==
  h.kind = "array" /\ h.data # <<>> /\ \A i \in DOMAIN h.data : h.data[i].hasFiles

LoadSettled(b) == B[b].pc \notin {"idle", "read"}

\* C6: writeFile enabled and the history file a non-empty list of Snapshots:
\* load returns the size map of a Snapshot with the greatest timestamp, holding
\* exactly that Snapshot's files of non-zero size, each with its recorded size.
C6_LoadsNewestSnapshot ==
  \A b \in Builds :
    (writeFile /\ LoadSettled(b) /\ IsSnapshotList(B[b].histRead)) =>
      /\ B[b].loadKind = "history"
      /\ \E i \in DOMAIN B[b].histRead.data :
           LET s == B[b].histRead.data[i]
               m == B[b].sizesBefore
           IN /\ \A j \in DOMAIN B[b].histRead.data :
                   B[b].histRead.data[j].timestamp <= s.timestamp
              /\ \A k \in DOMAIN m :
                   /\ m[k].val # 0
                   /\ \E f \in DOMAIN s.files :
                        s.files[f].filename = m[k].name /\ s.files[f].size = m[k].val
              /\ \A f \in DOMAIN s.files :
                   s.files[f].size # 0 => SizeIn(m, s.files[f].filename) = s.files[f].size
              /\ \A k, l \in DOMAIN m : m[k].name = m[l].name => k = l

\* a history stored oldest first whose newest Snapshot has a zero-size file
C6_Witness ==
  \E b \in Builds :
    /\ B[b].loadKind = "history"
    /\ Len(B[b].histRead.data) > 1
    /\ B[b].histRead.data[1].timestamp < B[b].histRead.data[2].timestamp
    /\ \E f \in DOMAIN B[b].histRead.data[2].files :
         B[b].histRead.data[2].files[f].size = 0
    /\ B[b].sizesBefore # <<>>

\* C7: a history file that is missing, corrupt, or not a list of Snapshots is
\* no prior history: load scans the output directory and no error of reading
\* or interpreting the file rejects the hook.
C7_UnusableHistoryFallsBack ==
  \A b \in Builds :
    (writeFile /\ LoadSettled(b) /\ ~IsSnapshotList(B[b].histRead)) =>
      /\ ~(B[b].hook = "rejected" /\ B[b].err = "TypeError")
      /\ B[b].loadKind # "history"
      /\ (B[b].hook = "resolved" => B[b].loadKind = "scan")

\* C8: when the hook's promise is resolved, the build's measurement,
\* reconciliation, report and persistence have finished.
C8_ResolvedMeansFinished ==
  \A b \in Builds : B[b].hook = "resolved" => B[b].pc = "done"

\* C9: a fatal error (brotli unavailable when a file is measured, the
\* filesystem rejecting the history write) rejects the hook's promise.
C9_FatalErrorRejectsHook ==
  \A b \in Builds : B[b].err \in {"Brotli", "Write"} => B[b].hook = "rejected"

BundleNames(bun) == [i \in DOMAIN bun |-> bun[i].fileName]

ChunkCount(bun) == Cardinality({i \in DOMAIN bun : bun[i].type = "chunk"})

\* C10: in a build that does not produce exactly one chunk, the tracked names
\* are the produced names matching the configured pattern and not the exclude
\* pattern, in input order, whatever earlier builds produced.
C10_ConfiguredPatternSelects ==
  \A b \in Builds :
    (B[b].task # "none" /\ ChunkCount(B[b].bundle) # 1) =>
      B[b].assetNames =
        SelectSeq(BundleNames(B[b].bundle),
                  LAMBDA n : Matches(ConfiguredPattern, n) /\ ~IsExcluded(n))

\* C12 as stated: no Snapshot a build writes to the history file holds a
\* FileDelta whose size is 0.
C12_WrittenSnapshotHasNoZeroSize ==
  \A b \in Builds :
    B[b].wrote => \A i \in DOMAIN B[b].stats.files : B[b].stats.files[i].size # 0

\* C12 (amended): zero-size entries are dropped where a Snapshot is turned into
\* a baseline: the size map load takes from the history file has no entry of
\* size 0, though the Snapshot it comes from may hold such FileDeltas.
C12_LoadedBaselineHasNoZeroSize ==
  \A b \in Builds :
    B[b].loadKind = "history" =>
      \A k \in DOMAIN B[b].sizesBefore :
        B[b].sizesBefore[k].val # 0 /\ B[b].sizesBefore[k].val # Null

\* a baseline loaded from a Snapshot that a build wrote with a zero-size file
C12_Witness ==
  \E b, c \in Builds :
    /\ B[c].wrote
    /\ \E i \in DOMAIN B[c].stats.files : B[c].stats.files[i].size = 0
    /\ B[b].loadKind = "history"
    /\ B[b].histRead.kind = "array"
    /\ B[c].stats \in ToSet(B[b].histRead.data)
    /\ \A j \in DOMAIN B[b].histRead.data :
         B[b].histRead.data[j].timestamp <= B[c].stats.timestamp

\* C13: the history file, begun absent or newest first, stays newest first
\* whatever builds run: timestamps never increase from the head on.
C13_HistoryNewestFirst ==
  hist.kind = "array" =>
    \A i \in DOMAIN hist.data :
      \A j \in DOMAIN hist.data :
        i < j => hist.data[i].timestamp >= hist.data[j].timestamp

\* the entries of the size map m whose size is a number other than 0
NonZeroEntries(m) ==
  {<<m[i].name, m[i].val>> : i \in {k \in DOMAIN m : m[k].val # 0 /\ m[k].val # Null}}

\* build b measured, reported and ended its persistence step without an error
PersistenceFinished(b) == B[b].pc = "done" /\ B[b].task = "done"

\* C14: with writeFile on, when the persistence step of a build has ended and
\* the history file holds a Snapshot, the baseline the next build loads is that
\* build's current sizes without the zero entries.
C14_NextBaselineIsLastBuild ==
  [][\A b \in Builds : \A c \in Builds :
       ( /\ c = b + 1
         /\ writeFile
         /\ PersistenceFinished(b)
         /\ hist.kind = "array"
         /\ Len(hist.data) > 0
         /\ B[c].pc = "read"
         /\ B'[c].pc # "read" )
       => /\ B'[c].loadKind = "history"
          /\ NonZeroEntries(B'[c].sizesBefore) = NonZeroEntries(B[b].sizesAfter)]_vars

\* C15: when the host starts each invocation only after the promise of the one
\* before has settled, every Snapshot a build wrote is in the history file once
\* no work is left running.
C15_NoSnapshotLost ==
  (\A b \in Builds : B[b].pc \in {"idle", "done"}) =>
    \A b \in Builds :
      B[b].wrote => hist.kind = "array" /\ B[b].stats \in ToSet(hist.data)

\* C16: a file that getSizes cannot read has no entry in the baseline map and,
\* unless the build produces it, no FileDelta; the failed read aborts nothing.
C16_UnreadFileIsAbsent ==
  \A b \in Builds :
    B[b].loadKind = "scan" =>
      \A n \in B[b].unread :
        /\ B[b].hook = "resolved"
        /\ ~HasKey(B[b].sizesBefore, n)
        /\ (B[b].hasStats /\ ~HasKey(B[b].sizesAfter, n)) =>
             n \notin ToSet(Filenames(B[b].stats))

\* a selected output of b's bundle that has no code
NoCodeSelected(b) ==
  \E i \in DOMAIN B[b].assetNames : BundleLen(B[b].bundle, B[b].assetNames[i]) = Null

\* C17: when a selected output cannot be measured (it has no code), outputSizes
\* counts it as size 0 and still reconciles, reports and persists the rest.
C17_UnmeasurableOutputIsZero ==
  \A b \in Builds :
    ( /\ B[b].task # "none"
      /\ B[b].pc # "measure"
      /\ ~BrotliMissing
      /\ NoCodeSelected(b) )
    => /\ B[b].err # "TypeError"
       /\ B[b].hasStats
       /\ \A i \in DOMAIN B[b].assetNames :
            BundleLen(B[b].bundle, B[b].assetNames[i]) = Null =>
              /\ B[b].assetNames[i] \in ToSet(Filenames(B[b].stats))
              /\ SizeIn(B[b].sizesAfter, B[b].assetNames[i]) = 0

\* the one chunk of a bundle that has exactly one
OnlyChunk(bun) == bun[CHOOSE i \in DOMAIN bun : bun[i].type = "chunk"]

\* C11: in a build that produces exactly one chunk, the outputs selected for
\* measurement are that chunk's filename and nothing else, whatever the
\* configured pattern.
C11_SingleChunkSelectsItself ==
  \A b \in Builds :
    (B[b].task # "none" /\ ChunkCount(B[b].bundle) = 1) =>
      B[b].assetNames = <<OnlyChunk(B[b].bundle).fileName>>

\* C18: in the maps of getSizes and of outputSizes every filename is paired
\* with the measured size of that very file (null for a file getSizes could not
\* read), whatever names the filter removes.
C18_EachNamePairedWithOwnSize ==
  \A b \in Builds :
    /\ B[b].loadKind = "scan" =>
         \A k \in DOMAIN B[b].sizesBefore :
           LET e == B[b].sizesBefore[k] IN
             e.val = IF e.name \in B[b].unread THEN Null
                     ELSE CompressedLength(DirLen(e.name))
    /\ B[b].hasStats =>
         \A k \in DOMAIN B[b].sizesAfter :
           LET e == B[b].sizesAfter[k] IN
             e.val = CompressedLength(BundleLen(B[b].bundle, e.name))

\* the pattern generateBundle derives from bundle bun
OwnPattern(bun) ==
  IF ChunkCount(bun) = 1 THEN OnlyChunk(bun).fileName ELSE ConfiguredPattern

\* C19: though invocations overlap, each build selects its outputs by the
\* pattern of its own bundle and reconciles against the baseline its own load
\* returned.
C19_NoLeakBetweenBuilds ==
  \A b \in Builds :
    B[b].task # "none" =>
      /\ B[b].assetNames = filterFiles(BundleNames(B[b].bundle), OwnPattern(B[b].bundle))
      /\ B[b].loadKind = "history" =>
           B[b].sizesBefore = toFileMap(readFromDisk(B[b].histRead)[1].files)
      /\ B[b].loadKind = "scan" => Keys(B[b].sizesBefore) = B[b].files

====
